---- MODULE Spec2Model ----
(***************************************************************************)
(* Model of pal/socket_async.c: the non-blocking socket wrapper            *)
(* (socket_async_create, socket_async_is_create_complete,                  *)
(* socket_async_send, socket_async_receive, socket_async_destroy,          *)
(* socket_async_get_ipv4).                                                 *)
(*                                                                         *)
(* The wrapper keeps no state of its own; the state is the descriptor      *)
(* table of the network stack, the handles the caller holds, the           *)
(* connection state of each handle, and the record of the last call        *)
(* (its arguments, the system calls it made in order, its result and the   *)
(* value left in its out-parameter).                                       *)
(***************************************************************************)
EXTENDS Integers, Sequences, FiniteSets, TLC

\* ---------------------------------------------------------------- bounds
\* descriptors 0 .. MaxFd-1 exist; socket() fails when all are in use
MaxFd == 1
\* keep_alive of an options record ranges over -1 .. MaxKeepAlive
MaxKeepAlive == 1
\* size argument of send/receive ranges over 0 .. MaxSize
MaxSize == 1
\* getaddrinfo result lists have at most MaxAddrs entries
MaxAddrs == 2
\* IPv4 addresses in getaddrinfo results range over 0 .. MaxAddr
MaxAddr == 2

\* ------------------------------------------------------ program constants
SOCKET_ASYNC_INVALID_SOCKET == -1
\* __FAILURE__ : a non-zero result code
FAILURE == 1
EAGAIN == 11
EWOULDBLOCK == 140
EINPROGRESS == 115
ECONNREFUSED == 111
O_NONBLOCK == 2048
AF_INET == 2
AF_INET6 == 10

Fds == 0 .. (MaxFd - 1)

\* one system call as the wrapper issued it
Call(fn, arg, val, ret) == [fn |-> fn, arg |-> arg, val |-> val, ret |-> ret]

\* host-to-network conversion of a 16 bit port on a little-endian host
htons(port) == (port % 256) * 256 + (port \div 256)

\* ------------------------------------------------------------ get_socket_errno
\* sock_errno starts at 0 and is overwritten by getsockopt(SO_ERROR);
\* so_error is the value the stack leaves there (0 when it stores nothing)
get_socket_errno(file_descriptor, so_error) ==
    [sock_errno |-> so_error,
     calls |-> << Call("getsockopt", "SO_ERROR", so_error, 0) >>]

\* ------------------------------------------------------ socket_async_create
\* the (is_UDP, options) arguments a caller may pass; a NULL options pointer
\* is the record with isNull = TRUE
OptionsSet ==
    { [isNull |-> TRUE, keep_alive |-> 0, keep_idle |-> 0,
       keep_interval |-> 0, keep_count |-> 0] }
    \cup { [isNull |-> FALSE, keep_alive |-> ka, keep_idle |-> 30,
            keep_interval |-> 10, keep_count |-> 5] : ka \in -1 .. MaxKeepAlive }

\* what connect() can report on a non-blocking socket: its return value, the
\* errno it sets, the value SO_ERROR then reads, and the state the
\* connection is left in
ConnectOutcomes ==
    { [ret |-> 0, errno |-> 0, so_error |-> 0, conn |-> "connected"] }
    \cup { [ret |-> -1, errno |-> EINPROGRESS, so_error |-> e, conn |-> "connecting"]
             : e \in {0, EINPROGRESS} }
    \cup { [ret |-> -1, errno |-> ECONNREFUSED, so_error |-> e, conn |-> "failed"]
             : e \in {0, ECONNREFUSED} }

\* the answers of the network stack to the calls of one socket_async_create:
\* socket() gives the lowest free descriptor or fails, the k-th setsockopt
\* returns setsockopt[k], then bind and connect
AllOk == [k \in 1 .. 4 |-> 0]
FailAt(i) == [k \in 1 .. 4 |-> IF k = i THEN -1 ELSE 0]
OkConnect == [ret |-> 0, errno |-> 0, so_error |-> 0, conn |-> "connected"]
OsScript(sock, sso, bind, so_error, connect) ==
    [socket |-> sock, setsockopt |-> sso, bind |-> bind,
     bind_so_error |-> so_error, connect |-> connect]
OsScripts(free) ==
    LET fd == IF free = {} THEN -1 ELSE CHOOSE f \in free : \A g \in free : f <= g
    IN  { OsScript(-1, AllOk, 0, 0, OkConnect) }
        \cup (IF fd < 0 THEN {} ELSE
               { OsScript(fd, FailAt(i), 0, 0, OkConnect) : i \in 1 .. 4 }
          \cup { OsScript(fd, AllOk, -1, e, OkConnect) : e \in {0, 98} }
          \cup { OsScript(fd, AllOk, 0, 0, c) : c \in ConnectOutcomes })

\* variant of set_keep_alive without the && chain: all four are always applied
set_keep_alive_unchained(options, rets) ==
    [setopt_ok |-> \A k \in 1 .. 4 : rets[k] = 0,
     calls |-> << Call("setsockopt", "SO_KEEPALIVE", 1, rets[1]),
                  Call("setsockopt", "TCP_KEEPIDLE", options.keep_idle, rets[2]),
                  Call("setsockopt", "TCP_KEEPINTVL", options.keep_interval, rets[3]),
                  Call("setsockopt", "TCP_KEEPCNT", options.keep_count, rets[4]) >>]

\* lines 118-125: the four keep-alive options, chained with &&
set_keep_alive(options, rets) ==
    LET ok1 == rets[1] = 0
        ok2 == ok1 /\ rets[2] = 0
        ok3 == ok2 /\ rets[3] = 0
        ok4 == ok3 /\ rets[4] = 0
    IN  [setopt_ok |-> ok4,
         calls |-> << Call("setsockopt", "SO_KEEPALIVE", 1, rets[1]) >>
             \o (IF ok1 THEN << Call("setsockopt", "TCP_KEEPIDLE", options.keep_idle, rets[2]) >> ELSE << >>)
             \o (IF ok2 THEN << Call("setsockopt", "TCP_KEEPINTVL", options.keep_interval, rets[3]) >> ELSE << >>)
             \o (IF ok3 THEN << Call("setsockopt", "TCP_KEEPCNT", options.keep_count, rets[4]) >> ELSE << >>)]

\* variant of apply_options that does not look at is_UDP
apply_options_any_transport(is_UDP, options, rets) ==
    IF ~options.isNull
    THEN IF options.keep_alive >= 0
         THEN set_keep_alive(options, rets)
         ELSE [setopt_ok |-> TRUE, calls |-> << >>]
    ELSE [setopt_ok |-> rets[1] = 0,
          calls |-> << Call("setsockopt", "SO_KEEPALIVE", 0, rets[1]) >>]

\* lines 109-146: which keep-alive calls are made for (is_UDP, options)
apply_options(is_UDP, options, rets) ==
    IF ~is_UDP
    THEN IF ~options.isNull
         THEN IF options.keep_alive >= 0
              THEN set_keep_alive(options, rets)
              ELSE [setopt_ok |-> TRUE, calls |-> << >>]
         ELSE [setopt_ok |-> rets[1] = 0,
               calls |-> << Call("setsockopt", "SO_KEEPALIVE", 0, rets[1]) >>]
    ELSE [setopt_ok |-> TRUE, calls |-> << >>]

\* variant of connect_step that accepts EINPROGRESS only
connect_step_strict(sock, serverIPv4, port, c) ==
    LET cc == << Call("connect", "sockaddr_in", serverIPv4 * 65536 + htons(port), c.ret) >>
    IN  IF c.ret = -1
        THEN LET e == get_socket_errno(sock, c.so_error)
             IN  IF e.sock_errno # EINPROGRESS
                 THEN [result |-> SOCKET_ASYNC_INVALID_SOCKET, calls |-> cc \o e.calls]
                 ELSE [result |-> sock, calls |-> cc \o e.calls]
        ELSE [result |-> sock, calls |-> cc]

\* lines 196-223: connect and the decision on its outcome
connect_step(sock, serverIPv4, port, c) ==
    LET cc == << Call("connect", "sockaddr_in", serverIPv4 * 65536 + htons(port), c.ret) >>
    IN  IF c.ret = -1
        THEN LET e == get_socket_errno(sock, c.so_error)
                 sockErr == e.sock_errno
             IN  IF sockErr # EINPROGRESS /\ sockErr # 0
                 THEN [result |-> SOCKET_ASYNC_INVALID_SOCKET, calls |-> cc \o e.calls]
                 ELSE [result |-> sock, calls |-> cc \o e.calls]
        ELSE [result |-> sock, calls |-> cc]

\* lines 92-229
socket_async_create(serverIPv4, port, is_UDP, options, os) ==
    LET sock == os.socket
        c0 == << Call("socket", IF is_UDP THEN "SOCK_DGRAM" ELSE "SOCK_STREAM", 0, sock) >>
    IN  IF sock < 0
        THEN [result |-> SOCKET_ASYNC_INVALID_SOCKET, calls |-> c0]
        ELSE
          LET so == apply_options(is_UDP, options, os.setsockopt)
          IN  IF ~so.setopt_ok
              THEN [result |-> SOCKET_ASYNC_INVALID_SOCKET, calls |-> c0 \o so.calls]
              ELSE
                LET c1 == << Call("fcntl", "F_GETFL", 0, 0),
                             Call("fcntl", "F_SETFL", 0 + O_NONBLOCK, 0),
                             Call("bind", "INADDR_ANY:0", 0, os.bind) >>
                IN  IF os.bind # 0
                    THEN [result |-> SOCKET_ASYNC_INVALID_SOCKET,
                          calls |-> c0 \o so.calls \o c1
                                    \o get_socket_errno(sock, os.bind_so_error).calls]
                    ELSE
                      LET cn == connect_step(sock, serverIPv4, port, os.connect)
                      IN  [result |-> cn.result,
                           calls |-> c0 \o so.calls \o c1 \o cn.calls]

\* lines 385-389
socket_async_destroy(sock) ==
    [calls |-> << Call("close", "", sock, 0) >>]

\* ------------------------------------------- socket_async_is_create_complete
\* values an automatic variable that is never assigned can hold
Uninitialized == {-1, 0, 500000}

\* select(sock + 1, NULL, &writeset, &errset, &tv) on a descriptor whose
\* connection is in state c: the possible returns with the membership of the
\* descriptor in the two sets afterwards.  A negative tv_usec is rejected
\* (EINVAL); any call may fail in the stack (EBADF, ENOMEM); a failed call
\* leaves the sets as passed or cleared.  waited: the call slept because the
\* timeout was not zero and nothing was ready.
SelectFailures ==
    { [ret |-> -1, writeset |-> b, errset |-> b, waited |-> FALSE] : b \in BOOLEAN }
SelectOutcomes(tv, c) ==
    IF tv.tv_usec < 0 \/ tv.tv_sec < 0
    THEN SelectFailures
    ELSE SelectFailures \cup
         CASE c = "connected" ->
                { [ret |-> 1, writeset |-> TRUE, errset |-> FALSE, waited |-> FALSE] }
           [] c = "failed" ->
                { [ret |-> 1, writeset |-> FALSE, errset |-> TRUE, waited |-> FALSE],
                  [ret |-> 2, writeset |-> TRUE, errset |-> TRUE, waited |-> FALSE],
                  [ret |-> 1, writeset |-> TRUE, errset |-> FALSE, waited |-> FALSE] }
           [] OTHER ->
                { [ret |-> 0, writeset |-> FALSE, errset |-> FALSE,
                   waited |-> (tv.tv_sec # 0 \/ tv.tv_usec # 0)] }

\* lines 242-254: tv.tv_sec is assigned twice, tv.tv_usec never; garbage is
\* what the stack slot of tv.tv_usec holds on entry
make_timeval(garbage) == [tv_sec |-> 0, tv_usec |-> garbage]

\* variant of socket_async_is_create_complete that tests the write set first
is_create_complete_write_first(sock, is_complete, tv, sel) ==
    IF is_complete.isNull
    THEN [result |-> FAILURE, is_complete |-> is_complete.value, calls |-> << >>]
    ELSE
      LET cs == << Call("select", "writeset,errset", sock + 1, sel.ret) >>
      IN  IF sel.ret < 0
          THEN [result |-> FAILURE, is_complete |-> is_complete.value,
                calls |-> cs \o get_socket_errno(sock, 0).calls]
          ELSE IF sel.writeset
               THEN [result |-> 0, is_complete |-> TRUE, calls |-> cs]
               ELSE IF sel.errset
                    THEN [result |-> FAILURE, is_complete |-> is_complete.value,
                          calls |-> cs \o get_socket_errno(sock, ECONNREFUSED).calls]
                    ELSE [result |-> 0, is_complete |-> FALSE, calls |-> cs]

\* lines 231-287.  is_complete is the pointer argument: isNull, or the value
\* stored at it on entry; sel is the outcome of select
socket_async_is_create_complete(sock, is_complete, tv, sel) ==
    IF is_complete.isNull
    THEN [result |-> FAILURE, is_complete |-> is_complete.value, calls |-> << >>]
    ELSE
      LET cs == << Call("select", "writeset,errset", sock + 1, sel.ret) >>
      IN  IF sel.ret < 0
          THEN [result |-> FAILURE, is_complete |-> is_complete.value,
                calls |-> cs \o get_socket_errno(sock, 0).calls]
          ELSE IF sel.errset
               THEN [result |-> FAILURE, is_complete |-> is_complete.value,
                     calls |-> cs \o get_socket_errno(sock, ECONNREFUSED).calls]
               ELSE IF sel.writeset
                    THEN [result |-> 0, is_complete |-> TRUE, calls |-> cs]
                    ELSE [result |-> 0, is_complete |-> FALSE, calls |-> cs]

\* ------------------------------------------- socket_async_send / _receive
ECONNRESET == 104
EBADF == 9

\* what one send()/recv() of size bytes can return: a byte count, or -1 with
\* errno set; a descriptor that is not open gives EBADF
TransferOutcomes(isOpen, size) ==
    IF ~isOpen THEN { [ret |-> -1, errno |-> EBADF] }
    ELSE { [ret |-> n, errno |-> 0] : n \in 0 .. size }
         \cup { [ret |-> -1, errno |-> e] : e \in {EAGAIN, EWOULDBLOCK, ECONNRESET} }

\* variant of transfer that knows EAGAIN only
transfer_eagain_only(fn, sock, size, count, os) ==
    LET cs == << Call(fn, "", size, os.ret) >>
    IN  IF os.ret < 0
        THEN IF os.errno = EAGAIN
             THEN [result |-> 0, count |-> 0, calls |-> cs]
             ELSE [result |-> FAILURE, count |-> count, calls |-> cs]
        ELSE [result |-> 0, count |-> os.ret, calls |-> cs]

\* lines 306-336 and 351-381: one transfer call and the translation of its
\* outcome; count is the value stored at the count pointer on entry
transfer(fn, sock, size, count, os) ==
    LET cs == << Call(fn, "", size, os.ret) >>
    IN  IF os.ret < 0
        THEN LET sock_err == os.errno
             IN  IF sock_err = EAGAIN \/ sock_err = EWOULDBLOCK
                 THEN [result |-> 0, count |-> 0, calls |-> cs]
                 ELSE [result |-> FAILURE, count |-> count, calls |-> cs]
        ELSE [result |-> 0, count |-> os.ret, calls |-> cs]

\* variant of socket_async_send without the size == 0 branch
socket_async_send_no_zero_case(sock, buffer_null, size, sent_count, os) ==
    IF buffer_null \/ sent_count.isNull
    THEN [result |-> FAILURE, count |-> sent_count.value, calls |-> << >>]
    ELSE LET cs == << Call("send", "", size, os.ret) >>
         IN  IF os.ret < 0
             THEN IF os.errno = EAGAIN \/ os.errno = EWOULDBLOCK
                  THEN [result |-> 0, count |-> 0, calls |-> cs]
                  ELSE [result |-> FAILURE, count |-> sent_count.value, calls |-> cs]
             ELSE [result |-> 0, count |-> os.ret, calls |-> cs]

\* lines 289-338.  buffer_null: buffer == NULL; sent_count: the pointer
\* argument (isNull, or the value stored at it on entry)
socket_async_send(sock, buffer_null, size, sent_count, os) ==
    IF buffer_null \/ sent_count.isNull
    THEN [result |-> FAILURE, count |-> sent_count.value, calls |-> << >>]
    ELSE IF size = 0
         THEN [result |-> 0, count |-> 0, calls |-> << >>]
         ELSE transfer("send", sock, size, sent_count.value, os)

\* lines 340-383
socket_async_receive(sock, buffer_null, size, received_count, os) ==
    IF buffer_null \/ received_count.isNull \/ size = 0
    THEN [result |-> FAILURE, count |-> received_count.value, calls |-> << >>]
    ELSE transfer("recv", sock, size, received_count.value, os)

\* ---------------------------------------------------- socket_async_get_ipv4
\* the result lists of getaddrinfo: at most MaxAddrs entries
AddrInfo == [ai_family : {AF_INET, AF_INET6}, s_addr : 0 .. MaxAddr]
RECURSIVE AddrLists(_)
AddrLists(n) ==
    IF n = 0 THEN { << >> }
    ELSE AddrLists(n - 1)
         \cup { Append(l, a) : l \in { m \in AddrLists(n - 1) : Len(m) = n - 1 },
                               a \in AddrInfo }
EAI_FAIL == -4
GetAddrInfoOutcomes ==
    { [ret |-> 0, addrInfo |-> l] : l \in AddrLists(MaxAddrs) }
    \cup { [ret |-> EAI_FAIL, addrInfo |-> << >>] }

\* variant of walk_list whose break leaves the loop at the first AF_INET entry
RECURSIVE walk_list_first(_, _, _)
walk_list_first(addrInfo, k, result) ==
    IF k > Len(addrInfo) THEN result
    ELSE IF addrInfo[k].ai_family = AF_INET
         THEN addrInfo[k].s_addr
         ELSE walk_list_first(addrInfo, k + 1, result)

\* lines 68-76: the for loop from entry k on; the break leaves the switch,
\* not the loop
RECURSIVE walk_list(_, _, _)
walk_list(addrInfo, k, result) ==
    IF k > Len(addrInfo) THEN result
    ELSE walk_list(addrInfo, k + 1,
                   IF addrInfo[k].ai_family = AF_INET
                   THEN addrInfo[k].s_addr ELSE result)

\* lines 40-90
socket_async_get_ipv4(hostname, gai) ==
    LET cs == << Call("getaddrinfo", hostname, 0, gai.ret) >>
    IN  IF gai.ret = 0
        THEN [result |-> walk_list(gai.addrInfo, 1, 0),
              calls |-> cs \o << Call("freeaddrinfo", "", 0, 0) >>]
        ELSE [result |-> 0, calls |-> cs]

\* ------------------------------------------------------------------ state
VARIABLES
    open,      \* descriptors the network stack holds open
    handles,   \* descriptors returned to the caller as handles, not destroyed
    conn,      \* connection state of each descriptor
    call       \* the last call: op, arguments, system calls, result

vars == << open, handles, conn, call >>

Ports == {8883}
ServerAddrs == {1}
Hostnames == {"a.example", "b.example", "c.example"}

\* descriptors created / closed by a sequence of system calls
Created(calls) == { calls[i].ret : i \in { j \in 1 .. Len(calls) :
                        calls[j].fn = "socket" /\ calls[j].ret >= 0 } }
Closed(calls) == { calls[i].val : i \in { j \in 1 .. Len(calls) :
                        calls[j].fn = "close" } }

Init ==
    /\ open = {}
    /\ handles = {}
    /\ conn = [f \in Fds |-> "none"]
    /\ call = [op |-> "none"]

Create ==
    \E ip \in ServerAddrs, port \in Ports, is_UDP \in BOOLEAN,
       options \in OptionsSet, os \in OsScripts(Fds \ open) :
      LET r == socket_async_create(ip, port, is_UDP, options, os)
          made == Created(r.calls) \ Closed(r.calls)
      IN  /\ open' = (open \cup Created(r.calls)) \ Closed(r.calls)
          /\ handles' = IF r.result # SOCKET_ASYNC_INVALID_SOCKET
                        THEN handles \cup {r.result} ELSE handles
          /\ conn' = [f \in Fds |->
                        IF f \in made /\ f = r.result THEN os.connect.conn
                        ELSE conn[f]]
          /\ call' = [op |-> "create", is_UDP |-> is_UDP, options |-> options,
                      os |-> os, result |-> r.result, calls |-> r.calls]

Destroy ==
    \E sock \in handles :
      LET r == socket_async_destroy(sock)
      IN  /\ open' = open \ Closed(r.calls)
          /\ handles' = handles \ {sock}
          /\ conn' = [conn EXCEPT ![sock] = "none"]
          /\ call' = [op |-> "destroy", sock |-> sock, calls |-> r.calls]

\* the network: a pending connect completes or fails, a connection breaks
SocketEvent ==
    \E f \in handles :
      /\ \/ conn[f] = "connecting" /\ conn' = [conn EXCEPT ![f] = "connected"]
         \/ conn[f] \in {"connecting", "connected"} /\ conn' = [conn EXCEPT ![f] = "failed"]
      /\ UNCHANGED << open, handles, call >>

\* a pointer argument: NULL, or the address of a caller variable holding v
Pointers(values) == { [isNull |-> TRUE, value |-> v] : v \in values }
                    \cup { [isNull |-> FALSE, value |-> v] : v \in values }

IsCreateComplete ==
    \E sock \in handles, is_complete \in Pointers(BOOLEAN), garbage \in Uninitialized :
      LET tv == make_timeval(garbage) IN
      \E sel \in SelectOutcomes(tv, conn[sock]) :
        LET r == socket_async_is_create_complete(sock, is_complete, tv, sel)
        IN  /\ call' = [op |-> "is_create_complete", sock |-> sock,
                        is_complete_in |-> is_complete, tv |-> tv, sel |-> sel,
                        seen |-> conn[sock],
                        result |-> r.result, is_complete |-> r.is_complete,
                        calls |-> r.calls]
            /\ UNCHANGED << open, handles, conn >>

Send ==
    \E sock \in handles \cup {SOCKET_ASYNC_INVALID_SOCKET}, buffer_null \in BOOLEAN,
       size \in 0 .. MaxSize, sent_count \in Pointers({7}) :
      \E os \in TransferOutcomes(sock \in open, size) :
        LET r == socket_async_send(sock, buffer_null, size, sent_count, os)
        IN  /\ call' = [op |-> "send", sock |-> sock, buffer_null |-> buffer_null,
                        size |-> size, count_in |-> sent_count, os |-> os,
                        result |-> r.result, count |-> r.count, calls |-> r.calls]
            /\ UNCHANGED << open, handles, conn >>

Receive ==
    \E sock \in handles \cup {SOCKET_ASYNC_INVALID_SOCKET}, buffer_null \in BOOLEAN,
       size \in 0 .. MaxSize, received_count \in Pointers({7}) :
      \E os \in TransferOutcomes(sock \in open, size) :
        LET r == socket_async_receive(sock, buffer_null, size, received_count, os)
        IN  /\ call' = [op |-> "receive", sock |-> sock, buffer_null |-> buffer_null,
                        size |-> size, count_in |-> received_count, os |-> os,
                        result |-> r.result, count |-> r.count, calls |-> r.calls]
            /\ UNCHANGED << open, handles, conn >>

GetIpv4 ==
    \E hostname \in Hostnames, gai \in GetAddrInfoOutcomes :
      LET r == socket_async_get_ipv4(hostname, gai)
      IN  /\ call' = [op |-> "get_ipv4", hostname |-> hostname, gai |-> gai,
                      result |-> r.result,
                      calls |-> r.calls]
          /\ UNCHANGED << open, handles, conn >>

Next ==
    \/ Create
    \/ IsCreateComplete
    \/ Send
    \/ Receive
    \/ GetIpv4
    \/ Destroy
    \/ SocketEvent

Spec == Init /\ [][Next]_vars

\* the connection lifecycle: create, poll for completion, destroy
NextSocket ==
    \/ Create
    \/ IsCreateComplete
    \/ Destroy
    \/ SocketEvent

SpecSocket == Init /\ [][NextSocket]_vars

\* transfers on the handles create returned
NextTransfer ==
    \/ Create
    \/ Send
    \/ Receive
    \/ Destroy
    \/ SocketEvent

SpecTransfer == Init /\ [][NextTransfer]_vars

\* name resolution, which touches no descriptor
NextResolve == GetIpv4

SpecResolve == Init /\ [][NextResolve]_vars

\* ---------------------------------------------------------------- properties
\* the system calls named fn that the last call made, in order
CallsOf(fn) == SelectSeq(call.calls, LAMBDA c : c.fn = fn)
IsCreate == call.op = "create"
IsPoll == call.op = "is_create_complete"
\* the last call was a create whose socket() succeeded
SocketMade == IsCreate /\ call.calls[1].ret >= 0
\* the last call was a create that got as far as connect
ConnectTried == IsCreate /\ CallsOf("connect") # << >>

\* C1: every descriptor that is open was returned to the caller as a valid
\* handle: a create that fails after socket() succeeded has closed the
\* descriptor when it returns SOCKET_ASYNC_INVALID_SOCKET.
C1_NoDescriptorLeak == open \subseteq handles

C3_KeepAliveOrder ==
    (SocketMade /\ ~call.is_UDP /\ ~call.options.isNull /\ call.options.keep_alive >= 0) =>
        LET ks == CallsOf("setsockopt")
            expected == << [arg |-> "SO_KEEPALIVE", val |-> 1],
                           [arg |-> "TCP_KEEPIDLE", val |-> call.options.keep_idle],
                           [arg |-> "TCP_KEEPINTVL", val |-> call.options.keep_interval],
                           [arg |-> "TCP_KEEPCNT", val |-> call.options.keep_count] >>
        IN  /\ Len(ks) \in 1 .. 4
            /\ \A i \in 1 .. Len(ks) :
                   ks[i].arg = expected[i].arg /\ ks[i].val = expected[i].val
            /\ \A i \in 1 .. Len(call.calls) :
                   (call.calls[i].fn = "setsockopt" /\ call.calls[i].ret # 0)
                   => (i = Len(call.calls) /\ call.result = SOCKET_ASYNC_INVALID_SOCKET)
            /\ (\A i \in 1 .. Len(ks) : ks[i].ret = 0) => Len(ks) = 4

\* the second of the four applications failed
C3_Witness ==
    /\ SocketMade /\ ~call.is_UDP /\ ~call.options.isNull /\ call.options.keep_alive >= 0
    /\ Len(CallsOf("setsockopt")) = 2
    /\ CallsOf("setsockopt")[2].ret # 0
    /\ call.result = SOCKET_ASYNC_INVALID_SOCKET

\* C4: the keep-alive calls of create are fixed by (is_UDP, options): none
\* when is_UDP, whatever options is; none when is_UDP = false and options
\* has keep_alive < 0; exactly one, SO_KEEPALIVE = 0, when is_UDP = false and
\* options is NULL, and its failure gives SOCKET_ASYNC_INVALID_SOCKET.
C4_KeepAliveCalls ==
    IsCreate =>
        LET ks == CallsOf("setsockopt")
        IN  /\ call.is_UDP => ks = << >>
            /\ (~call.is_UDP /\ ~call.options.isNull /\ call.options.keep_alive < 0)
                   => ks = << >>
            /\ (SocketMade /\ ~call.is_UDP /\ call.options.isNull) =>
                   /\ Len(ks) = 1
                   /\ ks[1].arg = "SO_KEEPALIVE" /\ ks[1].val = 0
                   /\ ks[1].ret # 0 => call.result = SOCKET_ASYNC_INVALID_SOCKET

\* a UDP create that was given options with keep_alive >= 0 and went on to connect
C4_Witness ==
    /\ ConnectTried
    /\ call.is_UDP /\ ~call.options.isNull /\ call.options.keep_alive >= 0
    /\ call.result # SOCKET_ASYNC_INVALID_SOCKET

\* the outcome of a poll: FAILURE, or 0 with the value stored in *is_complete
PollOutcome(c) == [result |-> c.result,
                   done |-> IF c.result = 0 THEN c.is_complete ELSE FALSE]
\* the poll got a report from select
Reported(c) == c.op = "is_create_complete" /\ ~c.is_complete_in.isNull /\ c.sel.ret >= 0

\* C5: for a non-null is_complete and a select that reports readiness, the
\* handle in the error set gives FAILURE (also when it is in the write set),
\* writable and not in the error set gives 0 with *is_complete = true, in
\* neither set gives 0 with *is_complete = false.
C5_Mapping ==
    Reported(call) =>
        IF call.sel.errset THEN call.result = FAILURE
        ELSE IF call.sel.writeset THEN call.result = 0 /\ call.is_complete = TRUE
        ELSE call.result = 0 /\ call.is_complete = FALSE

\* C5, repetition: a poll changes nothing of the socket, and a poll that
\* follows a poll of the same handle in the same connection state with the
\* same report from select has the same outcome.
C5_Repeat ==
    (call'.op = "is_create_complete" /\ (call.op # "is_create_complete" \/ call' # call)) =>
        /\ UNCHANGED << open, handles, conn >>
        /\ (/\ Reported(call) /\ Reported(call')
            /\ call'.sock = call.sock /\ call'.seen = call.seen
            /\ call'.sel.writeset = call.sel.writeset
            /\ call'.sel.errset = call.sel.errset)
           => PollOutcome(call') = PollOutcome(call)

C6_FalseOnFailure ==
    (IsPoll /\ ~call.is_complete_in.isNull /\ call.result = FAILURE)
        => call.is_complete = FALSE

\* C7: every poll that reaches select passes a timeout of zero seconds and
\* zero microseconds, so select never waits.
C7_ZeroTimeout ==
    (IsPoll /\ CallsOf("select") # << >>)
        => (call.tv.tv_sec = 0 /\ call.tv.tv_usec = 0 /\ ~call.sel.waited)

\* C8 as stated: every send with size = 0 returns 0 with 0 bytes reported,
\* whatever the other arguments are, and does not call send().
C8_ZeroSizeAlwaysSucceeds ==
    (call.op = "send" /\ call.size = 0)
        => (call.result = 0 /\ call.count = 0 /\ call.calls = << >>)

\* C8 amended: a send with size = 0 never calls send(); with a non-null
\* buffer and a non-null sent_count it returns 0 and sets *sent_count to 0,
\* whatever the handle and the socket state are; with a NULL buffer or a
\* NULL sent_count it returns FAILURE.
C8_ZeroSizeWithValidPointers ==
    (call.op = "send" /\ call.size = 0) =>
        /\ call.calls = << >>
        /\ IF call.buffer_null \/ call.count_in.isNull
           THEN call.result = FAILURE
           ELSE call.result = 0 /\ call.count = 0

\* a zero-size send on the invalid handle with valid pointers
C8_Witness ==
    /\ call.op = "send" /\ call.size = 0
    /\ call.sock = SOCKET_ASYNC_INVALID_SOCKET
    /\ ~call.buffer_null /\ ~call.count_in.isNull
    /\ call.count_in.value # 0
    /\ call.result = 0 /\ call.count = 0

\* C9: a send or receive with valid arguments (non-null buffer and count,
\* size > 0) makes one send()/recv() call; would-block (EAGAIN or
\* EWOULDBLOCK) gives 0 with the count 0, any other error gives FAILURE, a
\* return of n >= 0 gives 0 with the count n.
C9_TransferOutcome ==
    (/\ call.op \in {"send", "receive"}
     /\ ~call.buffer_null /\ ~call.count_in.isNull /\ call.size > 0) =>
        /\ Len(call.calls) = 1
        /\ call.calls[1].fn = (IF call.op = "send" THEN "send" ELSE "recv")
        /\ call.calls[1].ret = call.os.ret
        /\ IF call.os.ret >= 0
           THEN call.result = 0 /\ call.count = call.os.ret
           ELSE IF call.os.errno \in {EAGAIN, EWOULDBLOCK}
                THEN call.result = 0 /\ call.count = 0
                ELSE call.result = FAILURE

\* a receive that met EWOULDBLOCK
C9_Witness ==
    /\ call.op = "receive"
    /\ ~call.buffer_null /\ ~call.count_in.isNull /\ call.size > 0
    /\ call.os.ret < 0 /\ call.os.errno = EWOULDBLOCK
    /\ call.result = 0 /\ call.count = 0

\* positions of the AF_INET entries of a getaddrinfo result list
InetAt(l) == { i \in 1 .. Len(l) : l[i].ai_family = AF_INET }
Min(S) == CHOOSE i \in S : \A j \in S : i <= j
Max(S) == CHOOSE i \in S : \A j \in S : i >= j

\* C10 as stated: the result is the address of the first AF_INET entry of
\* the list, and 0 when getaddrinfo fails or the list has no AF_INET entry.
C10_FirstInet ==
    call.op = "get_ipv4" =>
        LET l == call.gai.addrInfo
        IN  IF call.gai.ret = 0 /\ InetAt(l) # {}
            THEN call.result = l[Min(InetAt(l))].s_addr
            ELSE call.result = 0

\* C10 amended: the result is the address of the last AF_INET entry of the
\* list (in list order), and 0 when getaddrinfo fails or the list has no
\* AF_INET entry; nothing but an address or 0 is returned.
C10_LastInet ==
    call.op = "get_ipv4" =>
        LET l == call.gai.addrInfo
        IN  IF call.gai.ret = 0 /\ InetAt(l) # {}
            THEN call.result = l[Max(InetAt(l))].s_addr
            ELSE call.result = 0

\* a list with two AF_INET entries of different non-zero addresses
C10_Witness ==
    /\ call.op = "get_ipv4" /\ call.gai.ret = 0
    /\ LET l == call.gai.addrInfo
       IN  /\ Cardinality(InetAt(l)) >= 2
           /\ l[Min(InetAt(l))].s_addr # l[Max(InetAt(l))].s_addr
           /\ l[Min(InetAt(l))].s_addr # 0
           /\ call.result = l[Max(InetAt(l))].s_addr
           /\ call.result # 0

====
